---- MODULE Spec2Model ----
(***************************************************************************)
(* Model of microns_utils/version_utils.py: the semantic-version parser    *)
(* parse_version, the GitHub lookup get_latest_version_from_github and the *)
(* installed-version lookup get_package_version.                           *)
(*                                                                         *)
(* A Python str is modelled as a sequence of characters, so that strip,    *)
(* split, slicing and the regular expression are computed character by     *)
(* character as the interpreter computes them. An ASCII character is the   *)
(* one-character string; any other character is named by its code point,   *)
(* as in "U+0663" for ARABIC-INDIC DIGIT THREE.                            *)
(***************************************************************************)
EXTENDS Naturals, Sequences, FiniteSets

VARIABLES
    pc,          \* position of the modelled call: "start", then one value per step
    text,        \* parse_version: the argument
    result,      \* parse_version(text)
    reparsed,    \* parse_version(parse_version(text))
    wrapped,     \* parse_version('__version__ = "' + text + '"')
    args,        \* the arguments of the modelled call (a record)
    env,         \* what the outside world answers (GitHub, distributions, sys.path)
    ret,         \* the value the call returned
    raised,      \* the exception that left the call, "none" when it returned
    caught,      \* the exception the call's own except clause caught, "none" if none
    warnings,    \* the set of warnings the call emitted
    consulted    \* get_package_version: the lookups it called, in order

vars == <<pc, text, result, reparsed, wrapped, args, env, ret, raised, caught, warnings, consulted>>

(***************************************************************************)
(* Character classes of the pattern (line 41).                             *)
(***************************************************************************)
\* [0-9]
Digit == {"0", "1", "2", "3", "4", "5", "6", "7", "8", "9"}

Digit19 == Digit \ {"0"}

Letter ==
    {"a", "b", "c", "d", "e", "f", "g", "h", "i", "j", "k", "l", "m",
     "n", "o", "p", "q", "r", "s", "t", "u", "v", "w", "x", "y", "z",
     "A", "B", "C", "D", "E", "F", "G", "H", "I", "J", "K", "L", "M",
     "N", "O", "P", "Q", "R", "S", "T", "U", "V", "W", "X", "Y", "Z"}

\* [0-9a-zA-Z-]
AlnumHyphen == Digit \cup Letter \cup {"-"}

\* the decimal digits (Unicode category Nd) beyond ASCII
NonAsciiDigit ==
    {"U+0660", "U+0661", "U+0662", "U+0663", "U+0664", "U+0665", "U+0666", "U+0667",
     "U+0668", "U+0669", "U+06F0", "U+06F1", "U+06F2", "U+06F3", "U+06F4", "U+06F5",
     "U+06F6", "U+06F7", "U+06F8", "U+06F9", "U+07C0", "U+07C1", "U+07C2", "U+07C3",
     "U+07C4", "U+07C5", "U+07C6", "U+07C7", "U+07C8", "U+07C9", "U+0966", "U+0967",
     "U+0968", "U+0969", "U+096A", "U+096B", "U+096C", "U+096D", "U+096E", "U+096F",
     "U+09E6", "U+09E7", "U+09E8", "U+09E9", "U+09EA", "U+09EB", "U+09EC", "U+09ED",
     "U+09EE", "U+09EF", "U+0A66", "U+0A67", "U+0A68", "U+0A69", "U+0A6A", "U+0A6B",
     "U+0A6C", "U+0A6D", "U+0A6E", "U+0A6F", "U+0AE6", "U+0AE7", "U+0AE8", "U+0AE9",
     "U+0AEA", "U+0AEB", "U+0AEC", "U+0AED", "U+0AEE", "U+0AEF", "U+0B66", "U+0B67",
     "U+0B68", "U+0B69", "U+0B6A", "U+0B6B", "U+0B6C", "U+0B6D", "U+0B6E", "U+0B6F",
     "U+0BE6", "U+0BE7", "U+0BE8", "U+0BE9", "U+0BEA", "U+0BEB", "U+0BEC", "U+0BED",
     "U+0BEE", "U+0BEF", "U+0C66", "U+0C67", "U+0C68", "U+0C69", "U+0C6A", "U+0C6B",
     "U+0C6C", "U+0C6D", "U+0C6E", "U+0C6F", "U+0CE6", "U+0CE7", "U+0CE8", "U+0CE9",
     "U+0CEA", "U+0CEB", "U+0CEC", "U+0CED", "U+0CEE", "U+0CEF", "U+0D66", "U+0D67",
     "U+0D68", "U+0D69", "U+0D6A", "U+0D6B", "U+0D6C", "U+0D6D", "U+0D6E", "U+0D6F",
     "U+0DE6", "U+0DE7", "U+0DE8", "U+0DE9", "U+0DEA", "U+0DEB", "U+0DEC", "U+0DED",
     "U+0DEE", "U+0DEF", "U+0E50", "U+0E51", "U+0E52", "U+0E53", "U+0E54", "U+0E55",
     "U+0E56", "U+0E57", "U+0E58", "U+0E59", "U+0ED0", "U+0ED1", "U+0ED2", "U+0ED3",
     "U+0ED4", "U+0ED5", "U+0ED6", "U+0ED7", "U+0ED8", "U+0ED9", "U+0F20", "U+0F21",
     "U+0F22", "U+0F23", "U+0F24", "U+0F25", "U+0F26", "U+0F27", "U+0F28", "U+0F29",
     "U+1040", "U+1041", "U+1042", "U+1043", "U+1044", "U+1045", "U+1046", "U+1047",
     "U+1048", "U+1049", "U+1090", "U+1091", "U+1092", "U+1093", "U+1094", "U+1095",
     "U+1096", "U+1097", "U+1098", "U+1099", "U+17E0", "U+17E1", "U+17E2", "U+17E3",
     "U+17E4", "U+17E5", "U+17E6", "U+17E7", "U+17E8", "U+17E9", "U+1810", "U+1811",
     "U+1812", "U+1813", "U+1814", "U+1815", "U+1816", "U+1817", "U+1818", "U+1819",
     "U+1946", "U+1947", "U+1948", "U+1949", "U+194A", "U+194B", "U+194C", "U+194D",
     "U+194E", "U+194F", "U+19D0", "U+19D1", "U+19D2", "U+19D3", "U+19D4", "U+19D5",
     "U+19D6", "U+19D7", "U+19D8", "U+19D9", "U+1A80", "U+1A81", "U+1A82", "U+1A83",
     "U+1A84", "U+1A85", "U+1A86", "U+1A87", "U+1A88", "U+1A89", "U+1A90", "U+1A91",
     "U+1A92", "U+1A93", "U+1A94", "U+1A95", "U+1A96", "U+1A97", "U+1A98", "U+1A99",
     "U+1B50", "U+1B51", "U+1B52", "U+1B53", "U+1B54", "U+1B55", "U+1B56", "U+1B57",
     "U+1B58", "U+1B59", "U+1BB0", "U+1BB1", "U+1BB2", "U+1BB3", "U+1BB4", "U+1BB5",
     "U+1BB6", "U+1BB7", "U+1BB8", "U+1BB9", "U+1C40", "U+1C41", "U+1C42", "U+1C43",
     "U+1C44", "U+1C45", "U+1C46", "U+1C47", "U+1C48", "U+1C49", "U+1C50", "U+1C51",
     "U+1C52", "U+1C53", "U+1C54", "U+1C55", "U+1C56", "U+1C57", "U+1C58", "U+1C59",
     "U+A620", "U+A621", "U+A622", "U+A623", "U+A624", "U+A625", "U+A626", "U+A627",
     "U+A628", "U+A629", "U+A8D0", "U+A8D1", "U+A8D2", "U+A8D3", "U+A8D4", "U+A8D5",
     "U+A8D6", "U+A8D7", "U+A8D8", "U+A8D9", "U+A900", "U+A901", "U+A902", "U+A903",
     "U+A904", "U+A905", "U+A906", "U+A907", "U+A908", "U+A909", "U+A9D0", "U+A9D1",
     "U+A9D2", "U+A9D3", "U+A9D4", "U+A9D5", "U+A9D6", "U+A9D7", "U+A9D8", "U+A9D9",
     "U+A9F0", "U+A9F1", "U+A9F2", "U+A9F3", "U+A9F4", "U+A9F5", "U+A9F6", "U+A9F7",
     "U+A9F8", "U+A9F9", "U+AA50", "U+AA51", "U+AA52", "U+AA53", "U+AA54", "U+AA55",
     "U+AA56", "U+AA57", "U+AA58", "U+AA59", "U+ABF0", "U+ABF1", "U+ABF2", "U+ABF3",
     "U+ABF4", "U+ABF5", "U+ABF6", "U+ABF7", "U+ABF8", "U+ABF9", "U+FF10", "U+FF11",
     "U+FF12", "U+FF13", "U+FF14", "U+FF15", "U+FF16", "U+FF17", "U+FF18", "U+FF19",
     "U+104A0", "U+104A1", "U+104A2", "U+104A3", "U+104A4", "U+104A5", "U+104A6", "U+104A7",
     "U+104A8", "U+104A9", "U+10D30", "U+10D31", "U+10D32", "U+10D33", "U+10D34", "U+10D35",
     "U+10D36", "U+10D37", "U+10D38", "U+10D39", "U+11066", "U+11067", "U+11068", "U+11069",
     "U+1106A", "U+1106B", "U+1106C", "U+1106D", "U+1106E", "U+1106F", "U+110F0", "U+110F1",
     "U+110F2", "U+110F3", "U+110F4", "U+110F5", "U+110F6", "U+110F7", "U+110F8", "U+110F9",
     "U+11136", "U+11137", "U+11138", "U+11139", "U+1113A", "U+1113B", "U+1113C", "U+1113D",
     "U+1113E", "U+1113F", "U+111D0", "U+111D1", "U+111D2", "U+111D3", "U+111D4", "U+111D5",
     "U+111D6", "U+111D7", "U+111D8", "U+111D9", "U+112F0", "U+112F1", "U+112F2", "U+112F3",
     "U+112F4", "U+112F5", "U+112F6", "U+112F7", "U+112F8", "U+112F9", "U+11450", "U+11451",
     "U+11452", "U+11453", "U+11454", "U+11455", "U+11456", "U+11457", "U+11458", "U+11459",
     "U+114D0", "U+114D1", "U+114D2", "U+114D3", "U+114D4", "U+114D5", "U+114D6", "U+114D7",
     "U+114D8", "U+114D9", "U+11650", "U+11651", "U+11652", "U+11653", "U+11654", "U+11655",
     "U+11656", "U+11657", "U+11658", "U+11659", "U+116C0", "U+116C1", "U+116C2", "U+116C3",
     "U+116C4", "U+116C5", "U+116C6", "U+116C7", "U+116C8", "U+116C9", "U+11730", "U+11731",
     "U+11732", "U+11733", "U+11734", "U+11735", "U+11736", "U+11737", "U+11738", "U+11739",
     "U+118E0", "U+118E1", "U+118E2", "U+118E3", "U+118E4", "U+118E5", "U+118E6", "U+118E7",
     "U+118E8", "U+118E9", "U+11950", "U+11951", "U+11952", "U+11953", "U+11954", "U+11955",
     "U+11956", "U+11957", "U+11958", "U+11959", "U+11C50", "U+11C51", "U+11C52", "U+11C53",
     "U+11C54", "U+11C55", "U+11C56", "U+11C57", "U+11C58", "U+11C59", "U+11D50", "U+11D51",
     "U+11D52", "U+11D53", "U+11D54", "U+11D55", "U+11D56", "U+11D57", "U+11D58", "U+11D59",
     "U+11DA0", "U+11DA1", "U+11DA2", "U+11DA3", "U+11DA4", "U+11DA5", "U+11DA6", "U+11DA7",
     "U+11DA8", "U+11DA9", "U+16A60", "U+16A61", "U+16A62", "U+16A63", "U+16A64", "U+16A65",
     "U+16A66", "U+16A67", "U+16A68", "U+16A69", "U+16AC0", "U+16AC1", "U+16AC2", "U+16AC3",
     "U+16AC4", "U+16AC5", "U+16AC6", "U+16AC7", "U+16AC8", "U+16AC9", "U+16B50", "U+16B51",
     "U+16B52", "U+16B53", "U+16B54", "U+16B55", "U+16B56", "U+16B57", "U+16B58", "U+16B59",
     "U+1D7CE", "U+1D7CF", "U+1D7D0", "U+1D7D1", "U+1D7D2", "U+1D7D3", "U+1D7D4", "U+1D7D5",
     "U+1D7D6", "U+1D7D7", "U+1D7D8", "U+1D7D9", "U+1D7DA", "U+1D7DB", "U+1D7DC", "U+1D7DD",
     "U+1D7DE", "U+1D7DF", "U+1D7E0", "U+1D7E1", "U+1D7E2", "U+1D7E3", "U+1D7E4", "U+1D7E5",
     "U+1D7E6", "U+1D7E7", "U+1D7E8", "U+1D7E9", "U+1D7EA", "U+1D7EB", "U+1D7EC", "U+1D7ED",
     "U+1D7EE", "U+1D7EF", "U+1D7F0", "U+1D7F1", "U+1D7F2", "U+1D7F3", "U+1D7F4", "U+1D7F5",
     "U+1D7F6", "U+1D7F7", "U+1D7F8", "U+1D7F9", "U+1D7FA", "U+1D7FB", "U+1D7FC", "U+1D7FD",
     "U+1D7FE", "U+1D7FF", "U+1E140", "U+1E141", "U+1E142", "U+1E143", "U+1E144", "U+1E145",
     "U+1E146", "U+1E147", "U+1E148", "U+1E149", "U+1E2F0", "U+1E2F1", "U+1E2F2", "U+1E2F3",
     "U+1E2F4", "U+1E2F5", "U+1E2F6", "U+1E2F7", "U+1E2F8", "U+1E2F9", "U+1E950", "U+1E951",
     "U+1E952", "U+1E953", "U+1E954", "U+1E955", "U+1E956", "U+1E957", "U+1E958", "U+1E959",
     "U+1FBF0", "U+1FBF1", "U+1FBF2", "U+1FBF3", "U+1FBF4", "U+1FBF5", "U+1FBF6", "U+1FBF7",
     "U+1FBF8", "U+1FBF9"}

\* \d in a str pattern compiled without re.ASCII: every Unicode decimal digit
UnicodeDigit == Digit \cup NonAsciiDigit

\* the characters of  ' "'" '"  (adjacent literals concatenate to:  space " space ')
StripSet == {" ", "\"", "'"}

(***************************************************************************)
(* str.strip(chars), str.split(sep), s[1:]                                 *)
(***************************************************************************)
RECURSIVE lstrip(_, _)
lstrip(s, chars) ==
    IF s # <<>> /\ Head(s) \in chars THEN lstrip(Tail(s), chars) ELSE s

RECURSIVE rstrip(_, _)
rstrip(s, chars) ==
    IF s # <<>> /\ s[Len(s)] \in chars
    THEN rstrip(SubSeq(s, 1, Len(s) - 1), chars)
    ELSE s

strip(s, chars) == rstrip(lstrip(s, chars), chars)

\* index of the first occurrence of character c in s, 0 when there is none
find(s, c) ==
    IF \E i \in 1..Len(s) : s[i] = c
    THEN CHOOSE i \in 1..Len(s) : s[i] = c /\ \A j \in 1..(i - 1) : s[j] # c
    ELSE 0

\* s.split(c): the list of the pieces between the occurrences of c
RECURSIVE split(_, _)
split(s, c) ==
    LET i == find(s, c) IN
    IF i = 0 THEN <<s>>
    ELSE <<SubSeq(s, 1, i - 1)>> \o split(SubSeq(s, i + 1, Len(s)), c)

\* s[1:]
DropFirst(s) == IF s = <<>> THEN <<>> ELSE Tail(s)

(***************************************************************************)
(* The semver pattern of line 41, alternative by alternative.              *)
(***************************************************************************)
\* 0|[1-9]\d*
NumericId(s) ==
    \/ s = <<"0">>
    \/ /\ Len(s) >= 1
       /\ s[1] \in Digit19
       /\ \A i \in 2..Len(s) : s[i] \in UnicodeDigit

\* 0|[1-9]\d*|\d*[a-zA-Z-][0-9a-zA-Z-]*
PrereleaseId(s) ==
    \/ NumericId(s)
    \/ \E k \in 1..Len(s) :
          /\ \A i \in 1..(k - 1) : s[i] \in UnicodeDigit
          /\ s[k] \in Letter \cup {"-"}
          /\ \A i \in (k + 1)..Len(s) : s[i] \in AlnumHyphen

\* [0-9a-zA-Z-]+
BuildId(s) == Len(s) >= 1 /\ \A i \in 1..Len(s) : s[i] \in AlnumHyphen

\* (0|[1-9]\d*)\.(0|[1-9]\d*)\.(0|[1-9]\d*)
VersionCore(s) ==
    LET ids == split(s, ".") IN
    Len(ids) = 3 /\ \A i \in 1..3 : NumericId(ids[i])

\* id(?:\.id)* for the prerelease group
PrereleaseGroup(s) ==
    LET ids == split(s, ".") IN \A i \in 1..Len(ids) : PrereleaseId(ids[i])

\* id(?:\.id)* for the build group
BuildGroup(s) ==
    LET ids == split(s, ".") IN \A i \in 1..Len(ids) : BuildId(ids[i])

\* The pattern between ^ and $: core, then optional -prerelease, then optional
\* +build. Neither the core nor a prerelease holds '+', and the core holds no
\* '-', so the first '+' and the first '-' before it are the delimiters.
\* main is what precedes the build; q is the index of its first '-', 0 for none
CoreAndPrerelease(main, q) ==
    /\ VersionCore(IF q = 0 THEN main ELSE SubSeq(main, 1, q - 1))
    /\ q # 0 => PrereleaseGroup(SubSeq(main, q + 1, Len(main)))

BeforeBuild(main) == CoreAndPrerelease(main, find(main, "-"))

\* p is the index of the first '+' of s, 0 for none
SemverAt(s, p) ==
    /\ BeforeBuild(IF p = 0 THEN s ELSE SubSeq(s, 1, p - 1))
    /\ p # 0 => BuildGroup(SubSeq(s, p + 1, Len(s)))

SemverBody(s) == SemverAt(s, find(s, "+"))

\* where '$' lets the match end: at the end of the string, or just before a
\* newline that is the last character of the string (re without MULTILINE)
DollarEnd(s) ==
    IF s # <<>> /\ s[Len(s)] = "\n" THEN SubSeq(s, 1, Len(s) - 1) ELSE s

\* re.search(semver, s): the pattern is anchored at both ends and none of its
\* characters is a newline, so the only possible match is DollarEnd(s)
re_search(s) ==
    [matched |-> SemverBody(DollarEnd(s)), group |-> DollarEnd(s)]

(***************************************************************************)
(* parse_version                                                           *)
(***************************************************************************)
\* Candidate with only the spaces stripped from the ends, the quotes left
CandidateSpacesOnly(t) ==
    LET t1    == strip(t, {"\n"})
        parts == split(t1, "=")
    IN  IF Len(parts) > 1 THEN strip(parts[2], {" "}) ELSE strip(t1, {" "})

\* lines 42-43: the text the pattern is searched in
Candidate(t) ==
    LET t1    == strip(t, {"\n"})
        parts == split(t1, "=")
    IN  IF Len(parts) > 1 THEN strip(parts[2], StripSet) ELSE strip(t1, StripSet)

\* line 45
GroupOrEmpty(parsed) == IF parsed.matched THEN parsed.group ELSE <<>>

parse_version(t) == GroupOrEmpty(re_search(Candidate(t)))

(***************************************************************************)
(* Strings used below, as character sequences.                             *)
(***************************************************************************)
V123 == <<"1", ".", "2", ".", "3">>

\* '__version__ = "' + v + '"' : the one line of a version.py file
VersionPyForm(v) ==
    <<"_", "_", "v", "e", "r", "s", "i", "o", "n", "_", "_", " ", "=", " ", "\"">>
        \o v \o <<"\"">>

NotFoundText ==
    <<"4", "0", "4", ":", " ", "N", "o", "t", " ", "F", "o", "u", "n", "d">>

None == "None"

WarnGithub == "Failed to reach Github during check for latest version."
WarnNoDist == "Package not found in distributions."
WarnNoFile == "No version.py file found."
WarnMultipleFiles == "Multiple version.py files found."
WarnNotLatest == "You are using a version which is not the latest version."

(***************************************************************************)
(* get_latest_version_from_github                                          *)
(*                                                                         *)
(* a: [source, path_to_version_file, warn] (repo, owner and branch only    *)
(* select the URL). e: what GitHub answers: whether requests.get returns,  *)
(* the text of the raw file, and the body of the API endpoint.             *)
(***************************************************************************)
Ok(v) == [ok |-> TRUE, latest |-> v, exc |-> "none"]

Fail(exc) == [ok |-> FALSE, latest |-> <<>>, exc |-> exc]

HasKey(entry, key) ==
    IF key = "name" THEN entry.has_name ELSE entry.has_tag_name

GetKey(entry, key) ==
    IF key = "name" THEN entry.name ELSE entry.tag_name

\* lines 73-74 and 77-78: parse_version(json.loads(f.text)[0][key][1:])
FromApi(e, key) ==
    IF ~e.reachable THEN Fail("ConnectionError")
    ELSE IF e.api.kind = "not_json" THEN Fail("JSONDecodeError")
    ELSE IF e.api.kind = "object" THEN Fail("KeyError")
    ELSE IF e.api.items = <<>> THEN Fail("IndexError")
    ELSE IF ~HasKey(e.api.items[1], key) THEN Fail("KeyError")
    ELSE Ok(parse_version(DropFirst(GetKey(e.api.items[1], key))))

\* FromRawFile without the assertion of line 68
FromRawFileNoAssert(a, e) ==
    IF ~e.reachable THEN Fail("ConnectionError")
    ELSE Ok(parse_version(e.raw_text))

\* lines 68-70
FromRawFile(a, e) ==
    IF a.path_to_version_file = None THEN Fail("AssertionError")
    ELSE IF ~e.reachable THEN Fail("ConnectionError")
    ELSE Ok(parse_version(e.raw_text))

\* lines 66-80: the body of the try statement
TryBody(a, e) ==
    IF a.source = "commit" THEN FromRawFile(a, e)
    ELSE IF a.source = "tag" THEN FromApi(e, "name")
    ELSE IF a.source = "release" THEN FromApi(e, "tag_name")
    ELSE Fail("ValueError")

\* lines 65 and 81-86: b is how the try body ended
AfterTry(a, b) ==
    [ret      |-> IF b.ok THEN b.latest ELSE <<>>,
     warnings |-> IF ~b.ok /\ a.warn THEN {WarnGithub} ELSE {},
     raised   |-> "none",
     caught   |-> b.exc]

get_latest_version_from_github(a, e) == AfterTry(a, TryBody(a, e))

(***************************************************************************)
(* get_package_version and the two lookups it falls back through           *)
(*                                                                         *)
(* e.dist_versions: the versions of the installed distributions whose name *)
(* is the package; e.n_files: the number of version.py files found under   *)
(* the package's sys.path entry; e.lines: the lines of that file.          *)
(***************************************************************************)
\* lines 97-102
get_package_version_from_distributions(e, warn) ==
    IF e.dist_versions = <<>>
    THEN [ret |-> <<>>, warnings |-> IF warn THEN {WarnNoDist} ELSE {},
          raised |-> "none"]
    ELSE [ret |-> e.dist_versions[1], warnings |-> {}, raised |-> "none"]

\* lines 114-131
get_package_version_from_sys_path(e, warn) ==
    IF e.n_files = 0
    THEN [ret |-> <<>>, warnings |-> IF warn THEN {WarnNoFile} ELSE {},
          raised |-> "none"]
    ELSE IF e.n_files > 1
    THEN [ret |-> <<>>, warnings |-> IF warn THEN {WarnMultipleFiles} ELSE {},
          raised |-> "none"]
    ELSE IF e.lines = <<>>
    THEN [ret |-> <<>>, warnings |-> {}, raised |-> "IndexError"]
    ELSE [ret |-> parse_version(e.lines[1]), warnings |-> {}, raised |-> "none"]

\* the signature of get_latest_version_from_github (line 48)
RequiredKeys == {"repo", "owner", "branch", "source"}

OptionalKeys == {"path_to_version_file", "warn"}

\* get_latest_version_from_github(**kw): the keywords must name parameters and
\* cover the required ones, and the optional ones take their defaults
KwargsBind(kw) ==
    [ok   |-> RequiredKeys \subseteq kw.keys
                /\ kw.keys \subseteq (RequiredKeys \cup OptionalKeys),
     args |-> [source |-> kw.source,
               path_to_version_file |->
                   IF "path_to_version_file" \in kw.keys
                   THEN kw.path_to_version_file ELSE None,
               warn |-> IF "warn" \in kw.keys THEN kw.warn ELSE TRUE]]

\* InstalledVersion with sys.path looked up before the distributions
FirstOfSysFirst(dist, sys) ==
    IF sys.raised = "none" /\ sys.ret # <<>>
    THEN [ret |-> sys.ret, warnings |-> sys.warnings, raised |-> "none",
          consulted |-> <<"sys_path">>]
    ELSE [ret |-> dist.ret, warnings |-> dist.warnings \cup sys.warnings,
          raised |-> sys.raised,
          consulted |-> <<"sys_path", "distributions">>]

InstalledVersionSysFirst(a, e) ==
    FirstOfSysFirst(get_package_version_from_distributions(e, FALSE),
                    get_package_version_from_sys_path(e, a.warn))

\* lines 145-155: the installed version, from the first lookup that gives one
\* dist and sys are what the two lookups give; sys is read only when dist
\* gave nothing
FirstOf(dist, sys) ==
    IF dist.ret # <<>>
    THEN [ret |-> dist.ret, warnings |-> dist.warnings, raised |-> "none",
          consulted |-> <<"distributions">>]
    ELSE [ret |-> sys.ret, warnings |-> dist.warnings \cup sys.warnings,
          raised |-> sys.raised,
          consulted |-> <<"distributions", "sys_path">>]

InstalledVersion(a, e) ==
    FirstOf(get_package_version_from_distributions(e, FALSE),
            get_package_version_from_sys_path(e, a.warn))

\* lines 161-163: gh is what get_latest_version_from_github gave
CompareWithLatest(a, v, gh) ==
    [warnings |-> gh.warnings \cup
         (IF v # gh.ret /\ a.warn THEN {WarnNotLatest} ELSE {}),
     raised |-> "none", caught |-> gh.caught]

\* line 159: bind is how the keywords bind to the parameters
CallWithKwargs(a, e, v, bind) ==
    IF ~bind.ok
    THEN [warnings |-> {}, raised |-> "TypeError", caught |-> "none"]
    ELSE CompareWithLatest(a, v, get_latest_version_from_github(bind.args, e))

\* lines 157-163: the check against GitHub, once a version v was found
CheckIfLatest(a, e, v) ==
    CallWithKwargs(a, e, v, KwargsBind(a.check_if_latest_kwargs))

\* lines 164-165 after the check chk, which may have raised
AfterCheck(inst, chk) ==
    [ret |-> IF chk.raised = "none" THEN inst.ret ELSE <<>>,
     warnings |-> inst.warnings \cup chk.warnings,
     raised |-> chk.raised, caught |-> chk.caught,
     consulted |-> inst.consulted \o <<"github">>]

\* lines 147-165: inst is the outcome of the two lookups
AfterLookup(a, e, inst) ==
    IF inst.raised # "none" \/ inst.ret = <<>> \/ ~a.check_if_latest
    THEN [ret |-> inst.ret, warnings |-> inst.warnings,
          raised |-> inst.raised, caught |-> "none",
          consulted |-> inst.consulted]
    ELSE AfterCheck(inst, CheckIfLatest(a, e, inst.ret))

get_package_version(a, e) == AfterLookup(a, e, InstalledVersion(a, e))

(***************************************************************************)
(* Inputs                                                                  *)
(***************************************************************************)
\* the longest run of free characters after the version core of a text
MaxTail == 3

\* the most version.py files found under one sys.path entry
MaxFiles == 2

SeqsUpTo(S, n) == UNION {[1..k -> S] : k \in 0..n}

Prefixes ==
    {<<>>, <<" ">>, <<"\n">>, <<"'">>, <<"x", "=">>,
     <<"_", "_", "v", "e", "r", "s", "i", "o", "n", "_", "_", " ", "=", " ", "\"">>}

Cores == {V123, <<"1", ".", "2">>}

TailChars == {"0", "1", "a", ".", "-", "+", "U+0663"}

Suffixes ==
    {<<>>, <<"\"">>, <<"\"", "\n">>, <<"\n">>, <<"\n", " ">>,
     <<"\n", "=", "y">>, <<"=", "y">>}

\* the arguments of parse_version
Texts ==
    {p \o c \o t \o s :
        p \in Prefixes, c \in Cores, t \in SeqsUpTo(TailChars, MaxTail), s \in Suffixes}

\* the arguments of get_latest_version_from_github
Sources == {"commit", "tag", "release", "branch"}

GithubArgs ==
    [call : {"get_latest_version_from_github"}, source : Sources,
     path_to_version_file : {None, "version.py"}, warn : BOOLEAN]

\* what GitHub can answer
RawTexts ==
    {VersionPyForm(V123) \o <<"\n">>, VersionPyForm(<<"1", ".", "2">>), NotFoundText}

TagNames ==
    {<<"v">> \o V123, V123, <<"v", "1", ".", "2">>,
     <<"v", "1", ".", "2", ".", "1", "U+0663">>}

ReleaseTitle == <<"N", "e", "w">>

\* one element of the list the tags endpoint (name) or the releases endpoint
\* (tag_name and name) answers, or an element with neither key
ApiEntries ==
    {[has_name |-> TRUE, name |-> n, has_tag_name |-> FALSE, tag_name |-> <<>>] :
        n \in TagNames}
    \cup
    {[has_name |-> TRUE, name |-> ReleaseTitle, has_tag_name |-> TRUE, tag_name |-> n] :
        n \in TagNames}
    \cup
    {[has_name |-> FALSE, name |-> <<>>, has_tag_name |-> FALSE, tag_name |-> <<>>]}

OlderEntry ==
    [has_name |-> TRUE, name |-> <<"v", "0", ".", "0", ".", "1">>,
     has_tag_name |-> TRUE, tag_name |-> <<"v", "0", ".", "0", ".", "1">>]

ApiBodies ==
    {[kind |-> "not_json", items |-> <<>>], [kind |-> "object", items |-> <<>>],
     [kind |-> "list", items |-> <<>>]}
    \cup {[kind |-> "list", items |-> <<x>>] : x \in ApiEntries}
    \cup {[kind |-> "list", items |-> <<x, OlderEntry>>] : x \in ApiEntries}

GithubEnvs == [reachable : BOOLEAN, raw_text : RawTexts, api : ApiBodies]

\* the check_if_latest_kwargs dictionaries: their keys, and the values of the
\* keys get_latest_version_from_github reads (defaults stand in for absent keys)
KeySets ==
    {{}, RequiredKeys, RequiredKeys \ {"source"}, RequiredKeys \cup {"tag"},
     RequiredKeys \cup {"path_to_version_file"}, RequiredKeys \cup {"warn"},
     RequiredKeys \cup OptionalKeys}

KwargsSet ==
    {kw \in [keys : KeySets, source : {"commit", "tag", "branch"},
             path_to_version_file : {None, "version.py"}, warn : BOOLEAN] :
        /\ "source" \notin kw.keys => kw.source = "commit"
        /\ "path_to_version_file" \in kw.keys <=> kw.path_to_version_file # None
        /\ "warn" \notin kw.keys => kw.warn = TRUE}

PackageArgs ==
    [call : {"get_package_version"}, check_if_latest : BOOLEAN, check_if_latest_kwargs : KwargsSet, warn : BOOLEAN]

\* what the installation and GitHub can answer to get_package_version
PackageEnvs ==
    [dist_versions : {<<>>, <<V123>>, <<<<"0", ".", "9", ".", "0">>, V123>>},
     n_files : 0..MaxFiles,
     lines : {<<>>, <<VersionPyForm(V123) \o <<"\n">>>>, <<<<"#", "\n">>>>},
     reachable : BOOLEAN,
     raw_text : {VersionPyForm(V123) \o <<"\n">>, NotFoundText},
     api : {b \in ApiBodies : Len(b.items) <= 1 /\ b.kind # "object"}]

ParseArgs == [call |-> "parse_version"]

NoEnv == [world |-> "none"]

(***************************************************************************)
(* parse_version applied to a text, to its own result, and to the text in  *)
(* the version.py form                                                     *)
(***************************************************************************)
InitParse ==
    /\ pc = "start"
    /\ text \in Texts
    /\ result = <<>> /\ reparsed = <<>> /\ wrapped = <<>>
    /\ args = ParseArgs /\ env = NoEnv
    /\ ret = <<>> /\ raised = "none" /\ caught = "none"
    /\ warnings = {} /\ consulted = <<>>

ParseText ==
    /\ args.call = "parse_version"
    /\ pc = "start"
    /\ result' = parse_version(text)
    /\ pc' = "parsed"
    /\ UNCHANGED <<text, reparsed, wrapped, args, env, ret, raised, caught,
                   warnings, consulted>>

ParseResult ==
    /\ pc = "parsed"
    /\ reparsed' = parse_version(result)
    /\ pc' = "reparsed"
    /\ UNCHANGED <<text, result, wrapped, args, env, ret, raised, caught,
                   warnings, consulted>>

ParseVersionPy ==
    /\ pc = "reparsed"
    /\ wrapped' = parse_version(VersionPyForm(text))
    /\ pc' = "done"
    /\ UNCHANGED <<text, result, reparsed, args, env, ret, raised, caught,
                   warnings, consulted>>

NextParse == ParseText \/ ParseResult \/ ParseVersionPy

SpecParse == InitParse /\ [][NextParse]_vars

(***************************************************************************)
(* One call of get_latest_version_from_github                              *)
(***************************************************************************)
InitGithub ==
    /\ pc = "start"
    /\ text = <<>> /\ result = <<>> /\ reparsed = <<>> /\ wrapped = <<>>
    /\ args \in GithubArgs
    /\ env \in GithubEnvs
    /\ ret = <<>> /\ raised = "none" /\ caught = "none"
    /\ warnings = {} /\ consulted = <<>>

\* the call ends as r says
EndsAs(r) ==
    /\ ret' = r.ret
    /\ raised' = r.raised
    /\ caught' = r.caught
    /\ warnings' = r.warnings

CallGetLatest ==
    /\ args.call = "get_latest_version_from_github"
    /\ pc = "start"
    /\ EndsAs(get_latest_version_from_github(args, env))
    /\ pc' = "done"
    /\ UNCHANGED <<text, result, reparsed, wrapped, args, env, consulted>>

NextGithub == CallGetLatest

SpecGithub == InitGithub /\ [][NextGithub]_vars

(***************************************************************************)
(* One call of get_package_version                                         *)
(***************************************************************************)
InitPackage ==
    /\ pc = "start"
    /\ text = <<>> /\ result = <<>> /\ reparsed = <<>> /\ wrapped = <<>>
    /\ args \in PackageArgs
    /\ env \in PackageEnvs
    /\ ret = <<>> /\ raised = "none" /\ caught = "none"
    /\ warnings = {} /\ consulted = <<>>

EndsWithLookups(r) == EndsAs(r) /\ consulted' = r.consulted

CallGetPackageVersion ==
    /\ args.call = "get_package_version"
    /\ pc = "start"
    /\ EndsWithLookups(get_package_version(args, env))
    /\ pc' = "done"
    /\ UNCHANGED <<text, result, reparsed, wrapped, args, env>>

NextPackage == CallGetPackageVersion

SpecPackage == InitPackage /\ [][NextPackage]_vars

\* any of the three functions is called
Init == InitParse \/ InitGithub \/ InitPackage

Next == NextParse \/ NextGithub \/ NextPackage

Spec == Init /\ [][Next]_vars

(***************************************************************************)
(* Properties                                                              *)
(***************************************************************************)
\* the characters a semantic version is written in (semver.org)
SemVerChars == AlnumHyphen \cup {".", "+"}

\* a complete semantic version: MAJOR.MINOR.PATCH without leading zeros, an
\* optional -prerelease and an optional +build, and nothing else. The pattern
\* of line 41 departs from the semver.org grammar only in the digits \d
\* admits, so a text in SemVerChars that fits the pattern is one.
IsSemVer(s) == SemverBody(s) /\ \A i \in 1..Len(s) : s[i] \in SemVerChars

ParseDone == args.call = "parse_version" /\ pc = "done"

\* C1 (as stated): parse_version(text) is "" or a complete semantic version, and
\* it is non-empty exactly when the candidate extracted from text is a complete
\* semantic version.
C1_Original ==
    (args.call = "parse_version" /\ pc # "start") =>
        /\ result = <<>> \/ IsSemVer(result)
        /\ result # <<>> <=> IsSemVer(Candidate(text))

\* C2: for every valid semantic version v, parse_version of v in the version.py
\* form and parse_version of v itself both give v; and parse_version applied to
\* its own result gives that result again, the empty result included.
C2_BothFormsAndIdempotent ==
    ParseDone =>
        /\ IsSemVer(text) => (result = text /\ wrapped = text)
        /\ reparsed = result

\* C2 witness: a version with a prerelease, parsed directly, in the version.py
\* form and a second time
C2_Witness ==
    /\ ParseDone
    /\ IsSemVer(text) /\ find(text, "-") # 0
    /\ result = text /\ wrapped = text /\ reparsed = text

GithubDone == args.call = "get_latest_version_from_github" /\ pc = "done"

UsesApi(a) == a.source \in {"tag", "release"}

ApiKey(a) == IF a.source = "tag" THEN "name" ELSE "tag_name"

\* the request is refused before it is made
Refused(a) ==
    \/ a.source \notin {"commit", "tag", "release"}
    \/ a.source = "commit" /\ a.path_to_version_file = None

\* the HTTP request, the JSON decoding or the indexing of the response fails
FetchFails(a, e) ==
    \/ ~e.reachable
    \/ UsesApi(a) /\ e.api.kind = "not_json"
    \/ UsesApi(a) /\ e.api.kind = "object"
    \/ UsesApi(a) /\ e.api.items = <<>>
    \/ UsesApi(a) /\ e.api.items # <<>> /\ ~HasKey(e.api.items[1], ApiKey(a))

\* what a successful fetch hands to parse_version: the text of the version
\* file, or the tag / release tag name after its leading character
Fetched(a, e) ==
    IF a.source = "commit" THEN e.raw_text
    ELSE DropFirst(GetKey(e.api.items[1], ApiKey(a)))

\* C3: get_latest_version_from_github never lets an error out: for an
\* unrecognized source, for source "commit" without path_to_version_file and
\* for every failure of the request, the decoding or the indexing it returns
\* ""; it returns a non-empty string only when parse_version parses what it
\* fetched, and then returns that version; and it warns only when something
\* failed and warn is True.
C3_NeverPropagates ==
    GithubDone =>
        /\ raised = "none"
        /\ (Refused(args) \/ FetchFails(args, env)) => ret = <<>>
        /\ ret # <<>> =>
              /\ ~Refused(args) /\ ~FetchFails(args, env)
              /\ ret = parse_version(Fetched(args, env))
        /\ warnings # {} => (args.warn /\ (Refused(args) \/ FetchFails(args, env)))

\* C3 witness: the tags endpoint answers an empty list, the indexing fails, the
\* call warns and returns ""
C3_Witness ==
    /\ GithubDone
    /\ args.source = "tag" /\ args.warn
    /\ env.reachable /\ env.api.kind = "list" /\ env.api.items = <<>>
    /\ caught = "IndexError" /\ warnings = {WarnGithub}
    /\ ret = <<>> /\ raised = "none"

PackageDone == args.call = "get_package_version" /\ pc = "done"

\* the lookups of the installed version among the calls made
Lookups == SelectSeq(consulted, LAMBDA c : c # "github")

\* C4 (as stated): the lookup has three tiers, and "" is returned only when all
\* three were consulted and produced "".
C4_Original ==
    (PackageDone /\ raised = "none" /\ ret = <<>>) => Len(consulted) = 3

\* C4 (amended): the lookup has two tiers tried in a fixed order, the
\* distributions and then sys.path: sys.path is consulted only when the
\* distributions produced "", the value returned is the first non-empty result,
\* and "" is returned only when both produced "".
C4_TwoTierFallback ==
    PackageDone =>
        LET first  == get_package_version_from_distributions(env, FALSE).ret
            second == get_package_version_from_sys_path(env, args.warn).ret
        IN  /\ Lookups \in {<<"distributions">>, <<"distributions", "sys_path">>}
            /\ Len(Lookups) = 2 => first = <<>>
            /\ raised = "none" => ret = (IF first # <<>> THEN first ELSE second)
            /\ (raised = "none" /\ ret = <<>>) =>
                  (Len(Lookups) = 2 /\ first = <<>> /\ second = <<>>)

\* C4 witness: the distributions give nothing and the version comes from the
\* version.py file on sys.path
C4_Witness ==
    /\ PackageDone
    /\ env.dist_versions = <<>>
    /\ consulted = <<"distributions", "sys_path">>
    /\ raised = "none" /\ ret = V123

\* C5 (as stated): with warn = False and no 'warn' key in
\* check_if_latest_kwargs, get_package_version emits no warning at all.
C5_Original ==
    (PackageDone /\ ~args.warn /\ "warn" \notin args.check_if_latest_kwargs.keys)
        => warnings = {}

\* C6 (as stated): the call with check_if_latest = True ends as the call with
\* check_if_latest = False does on the same installation: the same value
\* returned, and no exception the other does not raise.
C6_Original ==
    PackageDone =>
        LET plain == get_package_version([args EXCEPT !.check_if_latest = FALSE], env)
        IN  raised = plain.raised /\ ret = plain.ret

====
